---- MODULE Spec2Model ----
(***************************************************************************)
(* A model of the graf crate's A* search (src/src/astar.rs), the graph,    *)
(* map and heap operations it uses (src/src/lib.rs, src/src/map.rs).       *)
(*                                                                         *)
(* Conventions.  Node(i) is the natural number i.  Rust vectors are        *)
(* sequences, so the element with Rust index i is seq[i + 1].  Option<T>   *)
(* is a sequence of length at most one: None is << >>, Some(x) is <<x>>.   *)
(* Weights (f32) are the naturals 0, 1, 2, ...  (sums of small integers    *)
(* are exact in f32) and the one non-comparable value NaN.                 *)
(***************************************************************************)
EXTENDS Integers, Sequences, FiniteSets, TLC

\* ------------------------------------------------------------------ bounds
MaxNodes == 4
MaxSize == 6
ReuseSize == 5
MaxWeight == 1
MaxH == 1
WideNodes == 4
WideWeight == 2
WideH == 1

\* ------------------------------------------------------------------ values
None == << >>
Some(x) == <<x>>
IsSome(o) == Len(o) = 1
Unwrap(o) == o[1]

\* f32 not-a-number: the only value partial_cmp cannot order.
NaN == 0 - 1
IsNaN(x) == x = NaN
\* Variant: the second operand is dropped.
FAddFirst(a, b) == a
\* f32 addition: NaN is absorbing.
FAdd(a, b) == IF IsNaN(a) \/ IsNaN(b) THEN NaN ELSE a + b
\* f32 `<`: false as soon as one side is NaN.
FLt(a, b) == ~IsNaN(a) /\ ~IsNaN(b) /\ a < b

Min(a, b) == IF a < b THEN a ELSE b
Max(a, b) == IF a < b THEN b ELSE a

\* struct Edge { node, weight }
edge(n, c) == [node |-> n, weight |-> c]

\* ------------------------------------------------------------------ Ord for Edge
\* f32::partial_cmp(..).expect("Invalid float") panics on a NaN operand.
CmpPanics(self, o) == IsNaN(self.weight) \/ IsNaN(o.weight)

\* Variant: the node comparison reversed as well.
EdgeCmpNodeReversed(self, o) ==
    IF o.weight < self.weight THEN "Less"
    ELSE IF o.weight > self.weight THEN "Greater"
    ELSE IF o.node < self.node THEN "Less"
    ELSE IF o.node > self.node THEN "Greater"
    ELSE "Equal"

\* Edge::cmp: o.weight.partial_cmp(&self.weight), then self.node.cmp(&o.node).
\* Only used where CmpPanics is false.
EdgeCmp(self, o) ==
    IF o.weight < self.weight THEN "Less"
    ELSE IF o.weight > self.weight THEN "Greater"
    ELSE IF self.node < o.node THEN "Less"
    ELSE IF self.node > o.node THEN "Greater"
    ELSE "Equal"

\* PartialOrd::le through partial_cmp = Some(cmp).
EdgeLe(a, b) == EdgeCmp(a, b) \in {"Less", "Equal"}

\* ------------------------------------------------------------------ BinaryHeap<Edge>
\* The heap is its backing vector `data`; every operation returns the new
\* vector and whether a comparison panicked on the way.
RECURSIVE sift_up(_, _, _, _)
sift_up(data, elt, start, pos) ==
    IF pos <= start
    THEN [data |-> [data EXCEPT ![pos + 1] = elt], panic |-> FALSE]
    ELSE LET parent == (pos - 1) \div 2
         IN IF CmpPanics(elt, data[parent + 1])
            THEN [data |-> [data EXCEPT ![pos + 1] = elt], panic |-> TRUE]
            ELSE IF EdgeLe(elt, data[parent + 1])
                 THEN [data |-> [data EXCEPT ![pos + 1] = elt], panic |-> FALSE]
                 ELSE sift_up([data EXCEPT ![pos + 1] = data[parent + 1]],
                              elt, start, parent)

\* BinaryHeap::push: append, then sift the new element up from the end.
HeapPush(data, item) == sift_up(Append(data, item), item, 0, Len(data))

RECURSIVE sift_down_to_bottom(_, _, _)
sift_down_to_bottom(data, elt, pos) ==
    LET end_ == Len(data)
        child == 2 * pos + 1
    IN IF child <= Max(end_ - 2, 0)
       THEN IF CmpPanics(data[child + 1], data[child + 2])
            THEN [data |-> data, panic |-> TRUE]
            ELSE LET c == IF EdgeLe(data[child + 1], data[child + 2])
                          THEN child + 1 ELSE child
                 IN sift_down_to_bottom([data EXCEPT ![pos + 1] = data[c + 1]],
                                        elt, c)
       ELSE IF child = end_ - 1
            THEN sift_up([data EXCEPT ![pos + 1] = data[child + 1]], elt, 0, child)
            ELSE sift_up(data, elt, 0, pos)

\* BinaryHeap::pop on a non-empty heap: take the last element, swap it with
\* the root when anything is left and sift it down; the old root is returned.
HeapPop(data) ==
    LET last == data[Len(data)]
        rest == SubSeq(data, 1, Len(data) - 1)
    IN IF rest = << >>
       THEN [item |-> last, data |-> rest, panic |-> FALSE]
       ELSE LET r == sift_down_to_bottom(rest, last, 0)
            IN [item |-> rest[1], data |-> r.data, panic |-> r.panic]

\* Variant: the child is never found in the queue.
InQueueNever(data, child) == FALSE

\* queue.iter().any(|e| e.node == child)
InQueue(data, child) == \E i \in 1..Len(data) : data[i].node = child

\* ------------------------------------------------------------------ NodeMap<T>
NodeMapNew == << >>

\* NodeMap::insert: grow with None up to index n, then store Some(t).
NodeMapInsert(v, n, t) ==
    [i \in 1..Max(Len(v), n + 1) |->
        IF i = n + 1 THEN Some(t) ELSE IF i <= Len(v) THEN v[i] ELSE None]

\* NodeMap::has
NodeMapHas(v, n) == IF n >= Len(v) THEN FALSE ELSE IsSome(v[n + 1])

\* NodeMap::get
NodeMapGet(v, n) == IF ~NodeMapHas(v, n) THEN None ELSE v[n + 1]

\* NodeMap::clear: every entry absent, the backing length kept.
NodeMapClear(v) == [i \in 1..Len(v) |-> None]

\* ------------------------------------------------------------------ locked graph
\* Variant: the lists are laid out in descending node order.
RECURSIVE FlattenDescending(_)
FlattenDescending(ns) ==
    IF ns = << >> THEN << >> ELSE FlattenDescending(Tail(ns)) \o Head(ns)

RECURSIVE Flatten(_)
Flatten(ns) == IF ns = << >> THEN << >> ELSE Head(ns) \o Flatten(Tail(ns))

\* lock_graph: the edge lists concatenated in node order, and per node the
\* offset at which its list starts and its length.
lock_graph(ns) ==
    [node_data |-> Flatten(ns),
     node_info |-> [i \in 1..Len(ns) |->
                      [offset |-> Len(Flatten(SubSeq(ns, 1, i - 1))),
                       len |-> Len(ns[i])]]]

\* ImmutableAdjacencyList::len / is_empty
ImmLen(g) == Len(g.node_info)
ImmIsEmpty(g) == ImmLen(g) = 0

\* self.node_info[n.0] is a bounds-checked index.
ImmEdgesPanics(g, n) == n >= Len(g.node_info)

\* ImmutableAdjacencyList::edges
ImmEdges(g, n) ==
    LET info == g.node_info[n + 1]
    IN SubSeq(g.node_data, info.offset + 1, info.offset + info.len)

\* ------------------------------------------------------------------ AStarAcceleration
\* AStarAcceleration::new: the locked graph and three empty scratch buffers.
AStarAccelerationNew(ns) ==
    [graph |-> lock_graph(ns),
     node_cost |-> NodeMapNew,
     parents |-> NodeMapNew,
     queue |-> << >>]

\* Variant: the queue is not emptied.
clear_transients_keeps_queue(acc) ==
    [acc EXCEPT !.node_cost = NodeMapClear(acc.node_cost),
                !.parents = NodeMapClear(acc.parents)]

\* AStarAcceleration::clear_transients
clear_transients(acc) ==
    [acc EXCEPT !.node_cost = NodeMapClear(acc.node_cost),
                !.parents = NodeMapClear(acc.parents),
                !.queue = << >>]

\* ------------------------------------------------------------------ path reconstruction
\* walk_backwards / reconstruct: follow the parent entries from end to start,
\* collecting (child, weight of the edge into child); (start, 0) is added last
\* and the path reversed.  A missing parent entry gives None.  `path` is kept
\* in forward order (each step prepends).  `fuel` bounds the walk: a walk
\* longer than the map has entries is on a cycle and never returns.
RECURSIVE reconstruct(_, _, _, _, _, _)
reconstruct(start_, end_, par, child, path, fuel) ==
    IF fuel = 0 THEN [kind |-> "hang", result |-> None]
    ELSE LET p == NodeMapGet(par, child)
         IN IF ~IsSome(p) THEN [kind |-> "done", result |-> None]
            ELSE LET path1 == <<edge(child, Unwrap(p).weight)>> \o path
                     parent == Unwrap(p).node
                 IN IF parent = start_
                    THEN [kind |-> "done",
                          result |-> Some(<<edge(start_, 0)>> \o path1)]
                    ELSE reconstruct(start_, end_, par, parent, path1, fuel - 1)

\* Variant: the walk sets out from start.
walk_backwards_from_start(start_, end_, par) ==
    reconstruct(start_, end_, par, start_, << >>, Len(par) + 1)

walk_backwards(start_, end_, par) ==
    reconstruct(start_, end_, par, end_, << >>, Len(par) + 1)

\* ------------------------------------------------------------------ a_star
\* Variant: only the empty graph returns early.
EarlyReturnEmptyOnly(g, start_, end_) == ImmIsEmpty(g)

\* a_star, the early return: g.is_empty() || start == end
EarlyReturn(g, start_, end_) == ImmIsEmpty(g) \/ start_ = end_

\* Variant: the early return comes before the reset.
a_star_begin_returns_first(acc, start_, end_) ==
    IF EarlyReturn(acc.graph, start_, end_)
    THEN [acc |-> acc, pc |-> "done", result |-> None]
    ELSE LET a == clear_transients(acc)
             p == HeapPush(a.queue, edge(start_, 0))
         IN [acc |-> [a EXCEPT !.node_cost = NodeMapInsert(a.node_cost, start_, 0),
                               !.queue = p.data],
             pc |-> IF p.panic THEN "panic" ELSE "loop",
             result |-> None]

\* a_star up to the loop: reset, early return, seed.
a_star_begin(acc, start_, end_) ==
    LET a == clear_transients(acc)
    IN IF EarlyReturn(a.graph, start_, end_)
       THEN [acc |-> a, pc |-> "done", result |-> None]
       ELSE LET p == HeapPush(a.queue, edge(start_, 0))
            IN [acc |-> [a EXCEPT !.node_cost = NodeMapInsert(a.node_cost, start_, 0),
                                  !.queue = p.data],
                pc |-> IF p.panic THEN "panic" ELSE "loop",
                result |-> None]

\* Variant: every edge counts as an improvement.
ImprovesAlways(node_cost_, child, cost) == TRUE

\* Variant: an equal cost also counts as an improvement.
ImprovesOrEqual(node_cost_, child, cost) ==
    \/ ~NodeMapHas(node_cost_, child)
    \/ FLt(cost, Unwrap(NodeMapGet(node_cost_, child)))
    \/ cost = Unwrap(NodeMapGet(node_cost_, child))

\* !node_cost.has(&child) || start_to_child_cost < node_cost[child]
Improves(node_cost_, child, cost) ==
    \/ ~NodeMapHas(node_cost_, child)
    \/ FLt(cost, Unwrap(NodeMapGet(node_cost_, child)))

\* Variant: the parent entry stores the cost from start, not the edge weight.
ParentEntryCumulative(cur, cost, start_to_child_cost) == edge(cur, start_to_child_cost)

\* The value of parents.insert(child, Edge { node: cur, weight: cost }).
ParentEntry(cur, cost, start_to_child_cost) == edge(cur, cost)

\* The body of the for loop for one edge cur -> e.node.  c carries the
\* scratch buffers, whether a panic happened, and the nodes the heuristic was
\* evaluated on.
relax(c, cur, e, hf) ==
    IF c.panic THEN c
    ELSE IF ~NodeMapHas(c.node_cost, cur) THEN [c EXCEPT !.panic = TRUE]
    ELSE LET child == e.node
             start_to_child_cost == FAdd(Unwrap(NodeMapGet(c.node_cost, cur)), e.weight)
         IN IF Improves(c.node_cost, child, start_to_child_cost)
            THEN LET nc == NodeMapInsert(c.node_cost, child, start_to_child_cost)
                     par == NodeMapInsert(c.parents, child,
                                           ParentEntry(cur, e.weight, start_to_child_cost))
                 IN IF ~InQueue(c.queue, child)
                    THEN LET estimated_end_cost == FAdd(start_to_child_cost, hf[child])
                             p == HeapPush(c.queue, edge(child, estimated_end_cost))
                         IN [node_cost |-> nc, parents |-> par, queue |-> p.data,
                             panic |-> p.panic, evald |-> c.evald \cup {child}]
                    ELSE [c EXCEPT !.node_cost = nc, !.parents = par]
            ELSE c

RECURSIVE expand(_, _, _, _, _)
expand(c, cur, es, i, hf) ==
    IF i > Len(es) THEN c ELSE expand(relax(c, cur, es[i], hf), cur, es, i + 1, hf)

\* Variant: an exhausted queue yields an empty path.
ExhaustedEmptyPath == Some(<< >>)

\* The value returned once the queue is empty.
Exhausted == None

\* One iteration of `while let Some(..) = queue.pop()`, or the exit of the
\* loop.  Returns the accelerator, where control is afterwards, the result,
\* the pop made, and the nodes the heuristic was evaluated on.
a_star_iter(acc, start_, end_, hf) ==
    IF acc.queue = << >>
    THEN [acc |-> acc, pc |-> "done", result |-> Exhausted, popped |-> None, evald |-> {}]
    ELSE LET p == HeapPop(acc.queue)
             cur == p.item.node
             pop == Some([before |-> acc.queue, entry |-> p.item])
             a1 == [acc EXCEPT !.queue = p.data]
         IN IF p.panic
            THEN [acc |-> a1, pc |-> "panic", result |-> None, popped |-> pop, evald |-> {}]
            ELSE IF cur = end_
            THEN LET w == walk_backwards(start_, end_, a1.parents)
                 IN [acc |-> a1, pc |-> w.kind, result |-> w.result, popped |-> pop,
                     evald |-> {}]
            ELSE IF ImmEdgesPanics(a1.graph, cur)
            THEN [acc |-> a1, pc |-> "panic", result |-> None, popped |-> pop, evald |-> {}]
            ELSE LET c == expand([node_cost |-> a1.node_cost, parents |-> a1.parents,
                                  queue |-> a1.queue, panic |-> FALSE, evald |-> {}],
                                 cur, ImmEdges(a1.graph, cur), 1, hf)
                 IN [acc |-> [a1 EXCEPT !.node_cost = c.node_cost,
                                        !.parents = c.parents,
                                        !.queue = c.queue],
                     pc |-> IF c.panic THEN "panic" ELSE "loop",
                     result |-> None, popped |-> pop, evald |-> c.evald]

\* ------------------------------------------------------------------ graphs and inputs
\* Edge lists an AdjacencyList over n nodes can hold for one node: at most k
\* edges, no two with the same target (add_edge adds no parallel edge), in
\* any order.
RECURSIVE EdgeLists(_, _)
EdgeLists(n, k) ==
    IF k = 0 THEN {<< >>}
    ELSE LET shorter == EdgeLists(n, k - 1)
         IN shorter \cup
            {Append(p[1], p[2]) :
                p \in {q \in shorter \X [node : 0..(n - 1), weight : 0..MaxWeight] :
                          /\ Len(q[1]) = k - 1
                          /\ \A i \in 1..Len(q[1]) : q[1][i].node # q[2].node}}

\* The vectors `nodes` of the first i of n nodes, with at most budget edges.
RECURSIVE AdjLists(_, _, _)
AdjLists(n, i, budget) ==
    IF i = 0 THEN {<< >>}
    ELSE UNION {{Append(g, l) : g \in AdjLists(n, i - 1, budget - Len(l))} :
                   l \in EdgeLists(n, Min(n, budget))}

\* Every graph of at most MaxNodes nodes whose nodes and edges together
\* number at most size.
GraphsOfSize(size) == UNION {AdjLists(n, n, size - n) : n \in 0..Min(MaxNodes, size)}
Graphs == GraphsOfSize(MaxSize)
ReuseGraphs == GraphsOfSize(ReuseSize)

\* Graphs of WideNodes nodes whose edges all lead from a smaller to a larger
\* node id, each list in ascending target order.
ForwardLists(a) ==
    LET choices == [(a + 1)..(WideNodes - 1) -> {NaN} \cup 0..WideWeight]
        RECURSIVE build(_, _)
        build(f, b) ==
            IF b >= WideNodes THEN << >>
            ELSE (IF f[b] = NaN THEN << >> ELSE <<edge(b, f[b])>>) \o build(f, b + 1)
    IN {build(f, a + 1) : f \in choices}

RECURSIVE ForwardGraphs(_)
ForwardGraphs(a) ==
    IF a >= WideNodes THEN {<< >>}
    ELSE {<<l>> \o g : l \in ForwardLists(a), g \in ForwardGraphs(a + 1)}

WideGraphs == ForwardGraphs(0)

\* Values a heuristic may return.
HValues == {NaN} \cup 0..MaxH

\* ------------------------------------------------------------------ state
VARIABLES
    nodes,      \* AdjacencyList::nodes of the graph the accelerator was built from
    acc,        \* the AStarAcceleration: graph, node_cost, parents, queue
    pc,         \* "idle" | "loop" (inside a_star's while) | "done" | "panic" | "hang"
    start,      \* arguments of the current a_star call
    end,
    heuristic,  \* the heuristic's value on the nodes it has been asked about
    result,     \* the Option<Path> returned
    popped,     \* the last queue.pop() of the current call: queue before, entry
    ty,         \* AdjacencyList::ty, "Directed" | "Undirected"
    op,         \* the last graph / container operation: name, args, ret, before
    source,     \* the AdjacencyList as it was when the accelerator was built
    map,        \* NodeMap::v
    set,        \* NodeSet::v
    model,      \* the contents the container under test should have
    locals      \* the local variables of topsort / bfs / dfs while it runs

vars == <<nodes, acc, pc, start, end, heuristic, result, popped,
          ty, op, source, map, set, model, locals>>

\* The variables a search neither reads nor writes.
others == <<ty, op, source, map, set, model, locals>>

\* No topsort, bfs or dfs is running.
NoLocals == [fn |-> "none"]

\* No operation made yet.
NoOp == [name |-> "none", args |-> << >>, ret |-> None, before |-> << >>]

\* A directed graph handed to the accelerator, no container in use.
OthersIdle ==
    /\ ty = "Directed"
    /\ op = NoOp
    /\ source = nodes
    /\ map = << >>
    /\ set = << >>
    /\ model = {}
    /\ locals = NoLocals

Init ==
    /\ nodes \in ReuseGraphs
    /\ acc = AStarAccelerationNew(nodes)
    /\ pc = "idle"
    /\ start = 0
    /\ end = 0
    /\ heuristic = << >>
    /\ result = None
    /\ popped = None
    /\ OthersIdle

\* Node ids a caller may pass: the valid ones and the first id past the end.
NodeIds == 0..Len(nodes)

\* A call of a_star(acc, s, e, heuristic) up to the first loop test.
Call(s, e) ==
    /\ pc \in {"idle", "done"}
    /\ LET b == a_star_begin(acc, s, e)
       IN /\ acc' = b.acc
          /\ pc' = b.pc
          /\ result' = b.result
    /\ start' = s
    /\ end' = e
    /\ heuristic' = << >>
    /\ popped' = None
    /\ UNCHANGED nodes
    /\ UNCHANGED others

\* The heuristic extended by hx on the nodes in ns.
Extend(h, hx, ns) ==
    [n \in DOMAIN h \cup ns |-> IF n \in DOMAIN h THEN h[n] ELSE hx[n]]

\* Nodes the next iteration may ask the heuristic about for the first time.
Unasked ==
    IF acc.queue = << >> \/ ImmEdgesPanics(acc.graph, acc.queue[1].node) THEN {}
    ELSE {ImmEdges(acc.graph, acc.queue[1].node)[i].node :
             i \in 1..Len(ImmEdges(acc.graph, acc.queue[1].node))} \ DOMAIN heuristic

\* One iteration of the while loop (or its exit), the heuristic answering hx
\* on nodes it is asked about for the first time.
LoopStep ==
    /\ pc = "loop"
    /\ \E hx \in [Unasked -> HValues] :
          LET hf == Extend(heuristic, hx, Unasked)
              r == a_star_iter(acc, start, end, hf)
          IN /\ acc' = r.acc
             /\ pc' = r.pc
             /\ result' = r.result
             /\ popped' = IF r.popped = None THEN popped ELSE r.popped
             /\ heuristic' = Extend(heuristic, hx, r.evald)
    /\ UNCHANGED <<nodes, start, end>>
    /\ UNCHANGED others

Next ==
    \/ \E s \in NodeIds, e \in NodeIds : Call(s, e)
    \/ LoopStep

Spec == Init /\ [][Next]_vars

\* ------------------------------------------------------------------ a_star as a function
\* Sum of the weights of every edge of the locked graph.
RECURSIVE SumWeights(_)
SumWeights(es) == IF es = << >> THEN 0 ELSE Head(es).weight + SumWeights(Tail(es))

\* More iterations than a search can make: a node is pushed only when its
\* cost is first set or lowered.
LoopFuel(g) == (ImmLen(g) + 1) * (SumWeights(g.node_data) + 2) + 2

RECURSIVE a_star_loop(_, _, _, _, _)
a_star_loop(a, start_, end_, hf, fuel) ==
    IF fuel = 0 THEN [pc |-> "hang", result |-> None]
    ELSE LET r == a_star_iter(a, start_, end_, hf)
         IN IF r.pc = "loop" THEN a_star_loop(r.acc, start_, end_, hf, fuel - 1)
            ELSE [pc |-> r.pc, result |-> r.result]

\* a_star run to its end on the accelerator a: how it ends and what it returns.
a_star(a, start_, end_, hf) ==
    LET b == a_star_begin(a, start_, end_)
    IN IF b.pc = "loop" THEN a_star_loop(b.acc, start_, end_, hf, LoopFuel(a.graph))
       ELSE [pc |-> b.pc, result |-> b.result]

\* ------------------------------------------------------------------ reference distances
\* Every edge of the graph ns as <<from, to, weight>>.
EdgesOf(ns) ==
    UNION {{<<u, ns[u + 1][i].node, ns[u + 1][i].weight>> : i \in 1..Len(ns[u + 1])} :
              u \in 0..(Len(ns) - 1)}

MinOf(S) == CHOOSE x \in S : \A y \in S : x <= y

\* Larger than the weight of any path without a repeated edge.
Far(ns) == 1 + SumWeights(Flatten(ns))

\* k rounds of relaxing every edge (Bellman-Ford), from the distances d.
RECURSIVE Relaxed(_, _, _)
Relaxed(ns, d, k) ==
    IF k = 0 THEN d
    ELSE Relaxed(ns,
                 [v \in DOMAIN d |->
                    MinOf({d[v]} \cup {d[t[1]] + t[3] : t \in {x \in EdgesOf(ns) : x[2] = v}})],
                 k - 1)

\* The least total weight of a sequence of edges from s to e; Far(ns) when
\* there is none.
ShortestDist(ns, s, e) ==
    Relaxed(ns, [v \in 0..(Len(ns) - 1) |-> IF v = s THEN 0 ELSE Far(ns)], Len(ns))[e]

Reachable(ns, s, e) == ShortestDist(ns, s, e) < Far(ns)

\* The total weight of a path.
PathWeight(path) == SumWeights(path)

\* h never overestimates the remaining distance to e.
Admissible(ns, h, e) ==
    \A n \in 0..(Len(ns) - 1) : Reachable(ns, n, e) => h[n] <= ShortestDist(ns, n, e)

\* h obeys the triangle inequality over every edge and is 0 at e.
Consistent(ns, h, e) ==
    /\ h[e] = 0
    /\ \A t \in EdgesOf(ns) : h[t[1]] <= t[3] + h[t[2]]

IsValid(ns, n) == n < Len(ns)

\* ------------------------------------------------------------------ single searches on wide graphs
\* One a_star call on a fresh accelerator, for a forward graph of WideNodes
\* nodes, from node 0 to a later node, with a heuristic that is consistent
\* for end (the zero heuristic among them).
InitWide ==
    /\ nodes \in WideGraphs
    /\ start = 0
    /\ end \in 1..(WideNodes - 1)
    /\ LET b == a_star_begin(AStarAccelerationNew(nodes), start, end)
       IN /\ acc = b.acc
          /\ pc = b.pc
          /\ result = b.result
    /\ heuristic \in {h \in [0..(WideNodes - 1) -> 0..WideH] : Consistent(nodes, h, end)}
    /\ popped = None
    /\ OthersIdle

SpecWide == InitWide /\ [][LoopStep]_vars

\* ------------------------------------------------------------------ single searches
\* One a_star call on a fresh accelerator: any graph of Graphs, any node ids,
\* the heuristic answering as it is asked.
InitOnce ==
    /\ nodes \in Graphs
    /\ \E s \in 0..Len(nodes), e \in 0..Len(nodes) :
          /\ start = s
          /\ end = e
          /\ LET b == a_star_begin(AStarAccelerationNew(nodes), s, e)
             IN /\ acc = b.acc
                /\ pc = b.pc
                /\ result = b.result
    /\ heuristic = << >>
    /\ popped = None
    /\ OthersIdle

SpecOnce == InitOnce /\ [][LoopStep]_vars

\* ------------------------------------------------------------------ claims
\* The call has ended: returned, or aborted.
Ended == pc \in {"done", "panic", "hang"}
ValidQuery == IsValid(nodes, start) /\ IsValid(nodes, end) /\ start # end
HeuristicIsZero == \A n \in DOMAIN heuristic : heuristic[n] = 0
ZeroHeuristicFn == [n \in 0..(MaxNodes + WideNodes) |-> 0]

\* C1: with the zero heuristic and valid start # end, a_star returns a path
\* whose total weight is the shortest-path distance from start to end, and
\* returns None exactly when end cannot be reached from start.
C1_ZeroHeuristicMatchesDijkstra ==
    (Ended /\ ValidQuery /\ HeuristicIsZero) =>
        /\ pc = "done"
        /\ IF Reachable(nodes, start, end)
           THEN IsSome(result)
                /\ PathWeight(Unwrap(result)) = ShortestDist(nodes, start, end)
           ELSE result = None

\* C2: with an admissible and consistent heuristic, the total weight of the
\* returned path equals that of the path returned with the zero heuristic,
\* and one result is None exactly when the other is.
C2_ConsistentMatchesZero ==
    (Ended /\ ValidQuery /\ Admissible(nodes, heuristic, end)
        /\ Consistent(nodes, heuristic, end)) =>
        LET z == a_star(AStarAccelerationNew(nodes), start, end, ZeroHeuristicFn)
        IN /\ pc = z.pc
           /\ (result = None) <=> (z.result = None)
           /\ IsSome(result) => PathWeight(Unwrap(result)) = PathWeight(Unwrap(z.result))

\* The heuristic as asked so far, 0 elsewhere.
HeuristicTotal ==
    [n \in 0..MaxNodes |-> IF n \in DOMAIN heuristic THEN heuristic[n] ELSE 0]

\* C3: whatever earlier searches left in the accelerator, a call ends as the
\* same call on a freshly constructed accelerator for the same graph does,
\* with the same result.
C3_SameAsFreshAccelerator ==
    Ended =>
        LET f == a_star(AStarAccelerationNew(nodes), start, end, HeuristicTotal)
        IN pc = f.pc /\ result = f.result

\* A path was returned by a search on a used accelerator: the cost map's
\* backing vector is longer than this search made it (insert grows it to the
\* inserted index exactly, clear keeps the length).
C3_Witness ==
    /\ pc = "done"
    /\ IsSome(result)
    /\ Len(acc.node_cost) > 0
    /\ acc.node_cost[Len(acc.node_cost)] = None

\* The graph has the edge u -> v with weight w.
HasEdge(ns, u, v, w) ==
    /\ IsValid(ns, u)
    /\ \E i \in 1..Len(ns[u + 1]) : ns[u + 1][i] = edge(v, w)

\* C4: a returned path starts with (start, 0), ends with an entry for end,
\* and each further element (v, w) follows an element (u, _) such that the
\* graph has the edge u -> v with weight w.
C4_PathFollowsEdges ==
    (Ended /\ IsSome(result)) =>
        LET path == Unwrap(result)
        IN /\ Len(path) >= 1
           /\ path[1] = edge(start, 0)
           /\ path[Len(path)].node = end
           /\ \A i \in 1..(Len(path) - 1) :
                 HasEdge(nodes, path[i].node, path[i + 1].node, path[i + 1].weight)

\* A path over two edges of weight 1: the second element's cumulative cost
\* would be 2.
C4_Witness ==
    /\ pc = "done"
    /\ IsSome(result)
    /\ Len(Unwrap(result)) = 3
    /\ Unwrap(result)[2].weight = 1
    /\ Unwrap(result)[3].weight = 1

HeuristicComparable == \A n \in DOMAIN heuristic : ~IsNaN(heuristic[n])

\* C5 as stated: when no sequence of edges leads from a valid start to a
\* valid end # start, a_star returns None, for every heuristic.
C5_UnreachableReturnsNone ==
    (Ended /\ ValidQuery /\ ~Reachable(nodes, start, end)) =>
        pc = "done" /\ result = None

\* C5 as amended: ... for every heuristic whose values are comparable.
C5_UnreachableReturnsNoneComparable ==
    (Ended /\ ValidQuery /\ ~Reachable(nodes, start, end) /\ HeuristicComparable) =>
        pc = "done" /\ result = None

\* A search that expanded nodes, asked the heuristic (which answered a
\* non-zero value) and ended with end unreachable.
C5_Witness ==
    /\ pc = "done"
    /\ ValidQuery
    /\ ~Reachable(nodes, start, end)
    /\ result = None
    /\ \E n \in DOMAIN heuristic : heuristic[n] > 0

C7_InvalidNodeAborts ==
    (Ended /\ ~EarlyReturn(acc.graph, start, end)
        /\ (~IsValid(nodes, start) \/ ~IsValid(nodes, end))) =>
        pc = "panic"

QueueEntries(q) == {q[i] : i \in 1..Len(q)}
Comparable(q) == \A x \in QueueEntries(q) : ~IsNaN(x.weight)

\* C8 as stated: a pop removes an entry of smallest priority, and among the
\* entries of that priority the one with the smallest node id.
C8_PopSmallestThenSmallestId ==
    (popped # None /\ Comparable(Unwrap(popped).before)) =>
        LET p == Unwrap(popped)
        IN /\ p.entry \in QueueEntries(p.before)
           /\ \A x \in QueueEntries(p.before) :
                 /\ p.entry.weight <= x.weight
                 /\ x.weight = p.entry.weight => p.entry.node <= x.node

\* C8 as amended: a pop removes an entry of smallest priority, and among the
\* entries of that priority the one with the largest node id.
C8_PopSmallestThenLargestId ==
    (popped # None /\ Comparable(Unwrap(popped).before)) =>
        LET p == Unwrap(popped)
        IN /\ p.entry \in QueueEntries(p.before)
           /\ \A x \in QueueEntries(p.before) :
                 /\ p.entry.weight <= x.weight
                 /\ x.weight = p.entry.weight => p.entry.node >= x.node

\* A pop from a queue holding two nodes with the same priority.
C8_Witness ==
    /\ popped # None
    /\ \E x \in QueueEntries(Unwrap(popped).before),
          y \in QueueEntries(Unwrap(popped).before) :
          x.node # y.node /\ x.weight = y.weight /\ ~IsNaN(x.weight)
          /\ x.weight = Unwrap(popped).entry.weight

\* The recorded cost of node v, or Far when it has none.
CostOrFar(v) ==
    IF NodeMapHas(acc.node_cost, v) THEN Unwrap(NodeMapGet(acc.node_cost, v))
    ELSE Far(nodes)

RECURSIVE SumCosts(_)
SumCosts(v) == IF v < 0 THEN 0 ELSE CostOrFar(v) + SumCosts(v - 1)

\* A natural number: the queue length plus twice the sum of the nodes' costs.
Rank == Len(acc.queue) + 2 * SumCosts(MaxNodes)

\* C9: a_star terminates.  Every iteration of the loop either leaves the loop
\* (end popped, queue empty, or abort) or lowers Rank, a natural number: a
\* pop takes one entry away and a push happens only with a cost set or
\* lowered.  So a call makes finitely many pops.
C9_Terminates ==
    [][pc = "loop" => (pc' \in {"done", "panic"} \/ (Rank' < Rank /\ Rank' >= 0))]_vars

\* A search that ended by exhausting the queue after going round a cycle of
\* weight 0 reachable from start.
C9_Witness ==
    /\ pc = "done"
    /\ ValidQuery
    /\ result = None
    /\ \E u \in 0..(Len(nodes) - 1), v \in 0..(Len(nodes) - 1) :
          /\ HasEdge(nodes, u, v, 0)
          /\ HasEdge(nodes, v, u, 0)
          /\ Reachable(nodes, start, u)
          /\ start # u

\* C10: once the heuristic has returned NaN in a search, the search aborts.
C10_NaNAborts ==
    (Ended /\ ~HeuristicComparable) => pc = "panic"

\* ------------------------------------------------------------------ AdjacencyList
\* Bounds of the graphs built operation by operation.
GraphNodes == 3
GraphEdges == 3
GraphWeight == 1

\* AdjacencyList::add_node: the new node's id and the grown vector.
\* Variant: the id returned is the node count after the push.
add_node_returns_count(ns) == [nodes |-> Append(ns, << >>), ret |-> Len(ns) + 1]

\* AdjacencyList::add_node
add_node(ns) == [nodes |-> Append(ns, << >>), ret |-> Len(ns)]

\* self.nodes[a.0].iter().any(|edge| edge.node == b)
has_directed_edge_unchecked(ns, a, b) ==
    \E i \in 1..Len(ns[a + 1]) : ns[a + 1][i].node = b

\* Variant: an edge that already exists takes the new weight.
add_edge_last_wins(ns, t, a, b, c) ==
    IF ~(IsValid(ns, a) /\ IsValid(ns, b)) THEN [nodes |-> ns, panic |-> TRUE]
    ELSE IF has_directed_edge_unchecked(ns, a, b)
    THEN [nodes |-> [ns EXCEPT ![a + 1] =
                        [i \in 1..Len(@) |-> IF @[i].node = b THEN edge(b, c) ELSE @[i]]],
          panic |-> FALSE]
    ELSE [nodes |-> [ns EXCEPT ![a + 1] = Append(@, edge(b, c))], panic |-> FALSE]

\* AdjacencyList::add_edge on a graph of type t: the vector afterwards and
\* whether an assert failed (the first push is made before the second assert).
add_edge(ns, t, a, b, c) ==
    IF ~(IsValid(ns, a) /\ IsValid(ns, b)) THEN [nodes |-> ns, panic |-> TRUE]
    ELSE IF has_directed_edge_unchecked(ns, a, b) THEN [nodes |-> ns, panic |-> FALSE]
    ELSE LET n1 == [ns EXCEPT ![a + 1] = Append(@, edge(b, c))]
         IN IF t = "Undirected"
            THEN IF ~has_directed_edge_unchecked(n1, b, a)
                 THEN [nodes |-> n1, panic |-> TRUE]
                 ELSE [nodes |-> [n1 EXCEPT ![b + 1] = Append(@, edge(a, c))],
                       panic |-> FALSE]
            ELSE [nodes |-> n1, panic |-> FALSE]

\* AdjacencyList::has_edge
has_edge(ns, t, a, b) ==
    IF ~IsValid(ns, a) \/ ~IsValid(ns, b) THEN FALSE
    ELSE IF has_directed_edge_unchecked(ns, a, b) THEN TRUE
    ELSE IF t = "Undirected" THEN has_directed_edge_unchecked(ns, b, a)
    ELSE FALSE

\* AdjacencyList::edges: assert!(self.is_valid(n)), then the node's list.
edges(ns, n) ==
    IF ~IsValid(ns, n) THEN [ret |-> << >>, panic |-> TRUE]
    ELSE [ret |-> ns[n + 1], panic |-> FALSE]

\* Vec::swap_remove at the (1-based) position pos: the last element takes
\* the place of the removed one.
swap_remove(l, pos) ==
    LET shorter == SubSeq(l, 1, Len(l) - 1)
    IN IF pos = Len(l) THEN shorter ELSE [shorter EXCEPT ![pos] = l[Len(l)]]

\* AdjacencyList::remove_edge: only a is asserted valid; the first edge to b
\* is swap-removed and returned, None when there is none.
remove_edge(ns, a, b) ==
    IF ~IsValid(ns, a) THEN [nodes |-> ns, ret |-> None, panic |-> TRUE]
    ELSE LET found == {i \in 1..Len(ns[a + 1]) : ns[a + 1][i].node = b}
         IN IF found = {} THEN [nodes |-> ns, ret |-> None, panic |-> FALSE]
            ELSE LET pos == CHOOSE i \in found : \A j \in found : i <= j
                 IN [nodes |-> [ns EXCEPT ![a + 1] = swap_remove(@, pos)],
                     ret |-> Some(ns[a + 1][pos]),
                     panic |-> FALSE]

\* AdjacencyList::clear_edges: std::mem::take of the node's list.
clear_edges(ns, n) ==
    IF ~IsValid(ns, n) THEN [nodes |-> ns, ret |-> << >>, panic |-> TRUE]
    ELSE [nodes |-> [ns EXCEPT ![n + 1] = << >>], ret |-> ns[n + 1], panic |-> FALSE]

\* The number of edges stored.
EdgeCount(ns) == Len(Flatten(ns))

\* ------------------------------------------------------------------ graph operations, one by one
\* No search is going on: an accelerator of the empty graph, never called.
SearchIdle ==
    /\ acc = AStarAccelerationNew(<< >>)
    /\ start = 0
    /\ end = 0
    /\ heuristic = << >>
    /\ result = None
    /\ popped = None

search == <<acc, start, end, heuristic, result, popped>>

\* AdjacencyList::new(ty)
InitGraph ==
    /\ nodes = << >>
    /\ ty \in {"Directed", "Undirected"}
    /\ pc = "idle"
    /\ op = NoOp
    /\ source = << >>
    /\ map = << >>
    /\ set = << >>
    /\ model = {}
    /\ SearchIdle
    /\ locals = NoLocals

Done(name, args, ret, panic) ==
    /\ op' = [name |-> name, args |-> args, ret |-> ret, before |-> nodes]
    /\ pc' = IF panic THEN "panic" ELSE "idle"

AddNode ==
    /\ pc = "idle"
    /\ Len(nodes) < GraphNodes
    /\ LET r == add_node(nodes)
       IN nodes' = r.nodes /\ Done("add_node", << >>, r.ret, FALSE)
    /\ UNCHANGED <<ty, source, map, set, model>>
    /\ UNCHANGED search
    /\ UNCHANGED locals

AddEdge(a, b, c) ==
    /\ pc = "idle"
    /\ EdgeCount(nodes) < GraphEdges
    /\ LET r == add_edge(nodes, ty, a, b, c)
       IN nodes' = r.nodes /\ Done("add_edge", <<a, b, c>>, None, r.panic)
    /\ UNCHANGED <<ty, source, map, set, model>>
    /\ UNCHANGED search
    /\ UNCHANGED locals

HasEdgeQuery(a, b) ==
    /\ pc = "idle"
    /\ Done("has_edge", <<a, b>>, has_edge(nodes, ty, a, b), FALSE)
    /\ UNCHANGED <<nodes, ty, source, map, set, model>>
    /\ UNCHANGED search
    /\ UNCHANGED locals

EdgesQuery(n) ==
    /\ pc = "idle"
    /\ LET r == edges(nodes, n)
       IN Done("edges", <<n>>, r.ret, r.panic)
    /\ UNCHANGED <<nodes, ty, source, map, set, model>>
    /\ UNCHANGED search
    /\ UNCHANGED locals

RemoveEdge(a, b) ==
    /\ pc = "idle"
    /\ LET r == remove_edge(nodes, a, b)
       IN nodes' = r.nodes /\ Done("remove_edge", <<a, b>>, r.ret, r.panic)
    /\ UNCHANGED <<ty, source, map, set, model>>
    /\ UNCHANGED search
    /\ UNCHANGED locals

ClearEdges(n) ==
    /\ pc = "idle"
    /\ LET r == clear_edges(nodes, n)
       IN nodes' = r.nodes /\ Done("clear_edges", <<n>>, r.ret, r.panic)
    /\ UNCHANGED <<ty, source, map, set, model>>
    /\ UNCHANGED search
    /\ UNCHANGED locals

NextGraph ==
    \/ AddNode
    \/ \E a \in NodeIds, b \in NodeIds, c \in 0..GraphWeight : AddEdge(a, b, c)
    \/ \E a \in NodeIds, b \in NodeIds : HasEdgeQuery(a, b)
    \/ \E n \in NodeIds : EdgesQuery(n)
    \/ \E a \in NodeIds, b \in NodeIds : RemoveEdge(a, b)
    \/ \E n \in NodeIds : ClearEdges(n)

SpecGraph == InitGraph /\ [][NextGraph]_vars

\* C11: add_edge(a, b, w) on valid nodes with the edge a -> b already there
\* returns normally and leaves every edge list as it was, the weight of the
\* existing edge included.
C11_AddExistingEdgeIsNoOp ==
    (op.name = "add_edge"
        /\ IsValid(op.before, op.args[1]) /\ IsValid(op.before, op.args[2])
        /\ has_directed_edge_unchecked(op.before, op.args[1], op.args[2])) =>
        pc = "idle" /\ nodes = op.before

\* add_edge was called for an existing edge with another weight than it has.
C11_Witness ==
    /\ op.name = "add_edge"
    /\ pc = "idle"
    /\ IsValid(op.before, op.args[1]) /\ IsValid(op.before, op.args[2])
    /\ \E i \in 1..Len(op.before[op.args[1] + 1]) :
          /\ op.before[op.args[1] + 1][i].node = op.args[2]
          /\ op.before[op.args[1] + 1][i].weight # op.args[3]

\* No edge list holds two edges with the same target.
NoParallelEdges(ns) ==
    \A n \in 1..Len(ns) : \A i \in 1..Len(ns[n]), j \in 1..Len(ns[n]) :
        ns[n][i].node = ns[n][j].node => i = j

\* C12: after any sequence of operations that returned, on a graph of either
\* type, no node's edge list holds two edges with the same target.
C12_NoParallelEdges == pc = "idle" => NoParallelEdges(nodes)

\* The node ids passed to the last operation.
OpIds ==
    CASE op.name \in {"add_edge", "has_edge", "remove_edge"} -> {op.args[1], op.args[2]}
      [] op.name \in {"edges", "clear_edges"} -> {op.args[1]}
      [] OTHER -> {}

\* C13: an operation that was passed a node id >= the node count aborted.
C13_InvalidIdAborts ==
    (\E n \in OpIds : ~IsValid(op.before, n)) => pc = "panic"

\* C14: add_node returns the node count before the call and raises the count
\* by one; no other operation changes the node count.
C14_SequentialIds ==
    /\ op.name = "add_node" => (op.ret = Len(op.before) /\ Len(nodes) = Len(op.before) + 1)
    /\ op.name \in {"add_edge", "has_edge", "edges", "remove_edge", "clear_edges"} =>
          Len(nodes) = Len(op.before)

\* The third node was added to a graph that has edges.
C14_Witness ==
    /\ op.name = "add_node"
    /\ op.ret = 2
    /\ EdgeCount(op.before) > 0
    /\ IsValid(nodes, 2)

\* ------------------------------------------------------------------ locking a graph that changes
\* Bounds of the graphs locked.
LockNodes == 3
LockEdges == 3
LockWeight == 1
LockChanges == 1
ChangeSize == 4
ChangeSteps == 2

\* Variant: lock_graph moves the edge lists out of its input.
lock_graph_input_taken(ns) == [i \in 1..Len(ns) |-> << >>]

\* lock_graph(g: &AdjacencyList): the input after the call.  The borrow is
\* shared and the lists are copied (extend_from_slice), so it is as before.
lock_graph_input(ns) == ns

\* Variant: the accelerator's graph is a view of the source graph.
AccelerationViewsSource(a, ns) == [a EXCEPT !.graph = lock_graph(ns)]

\* The accelerator once its source graph has become ns: it owns the locked
\* graph built at construction, so it is as before.
AccelerationAfterChange(a, ns) == a

InitLock ==
    /\ nodes = << >>
    /\ ty = "Directed"
    /\ pc = "idle"
    /\ op = NoOp
    /\ source = << >>
    /\ map = << >>
    /\ set = << >>
    /\ model = {}
    /\ SearchIdle
    /\ locals = NoLocals

\* The number of changes made to the graph since the accelerator was built.
Changes == IF op.args = << >> THEN 0 ELSE op.args[1]

\* A change of the source graph between two searches.
ChangeTo(name, ns) ==
    /\ pc \in {"idle", "done"}
    /\ nodes' = ns
    /\ acc' = AccelerationAfterChange(acc, ns)
    /\ op' = [NoOp EXCEPT !.name = name, !.args = <<Changes + 1>>]
    /\ UNCHANGED <<pc, start, end, heuristic, result, popped, ty, source, map, set, model>>
    /\ UNCHANGED locals

ChangeAddNode ==
    /\ Len(nodes) < LockNodes
    /\ ChangeTo("add_node", add_node(nodes).nodes)

ChangeAddEdge(a, b, c) ==
    /\ EdgeCount(nodes) < LockEdges
    /\ ~add_edge(nodes, ty, a, b, c).panic
    /\ ChangeTo("add_edge", add_edge(nodes, ty, a, b, c).nodes)

ChangeRemoveEdge(a, b) ==
    /\ ~remove_edge(nodes, a, b).panic
    /\ ChangeTo("remove_edge", remove_edge(nodes, a, b).nodes)

ChangeClearEdges(n) ==
    /\ ~clear_edges(nodes, n).panic
    /\ ChangeTo("clear_edges", clear_edges(nodes, n).nodes)

\* AStarAcceleration::new(&g) on the graph as it is now.
Lock ==
    /\ pc \in {"idle", "done"}
    /\ acc' = AStarAccelerationNew(nodes)
    /\ source' = nodes
    /\ nodes' = lock_graph_input(nodes)
    /\ op' = [NoOp EXCEPT !.name = "lock_graph", !.args = <<0>>]
    /\ pc' = "idle"
    /\ start' = 0
    /\ end' = 0
    /\ heuristic' = << >>
    /\ result' = None
    /\ popped' = None
    /\ UNCHANGED <<ty, map, set, model>>
    /\ UNCHANGED locals

Change ==
    \/ ChangeAddNode
    \/ \E a \in NodeIds, b \in NodeIds, c \in 0..LockWeight : ChangeAddEdge(a, b, c)
    \/ \E a \in NodeIds, b \in NodeIds : ChangeRemoveEdge(a, b)
    \/ \E n \in NodeIds : ChangeClearEdges(n)

\* Graphs built change by change and locked again and again.
NextLock ==
    \/ Changes < LockChanges /\ Change
    \/ Lock

SpecLock == InitLock /\ [][NextLock]_vars

\* An accelerator built from a graph that changes afterwards, and searches
\* on that accelerator.
InitChange ==
    /\ nodes \in GraphsOfSize(ChangeSize)
    /\ acc = AStarAccelerationNew(nodes)
    /\ pc = "idle"
    /\ start = 0
    /\ end = 0
    /\ heuristic = << >>
    /\ result = None
    /\ popped = None
    /\ OthersIdle

NextChange ==
    \/ Changes < ChangeSteps /\ Change
    \/ \E s \in 0..Len(source), e \in 0..Len(source) : Call(s, e)
    \/ LoopStep

SpecChange == InitChange /\ [][NextChange]_vars

\* C15: the locked graph has the node count of the graph it was built from,
\* edges(n) yields that graph's list for n in the same order, and the
\* (offset, len) ranges follow each other in node order from 0 and end at
\* the end of the flat edge array.
C15_LockedGraphMatchesSource ==
    LET g == acc.graph
        info == g.node_info
    IN /\ ImmLen(g) = Len(source)
       /\ \A n \in 0..(Len(source) - 1) :
             ~ImmEdgesPanics(g, n) /\ ImmEdges(g, n) = source[n + 1]
       /\ \A i \in 1..Len(info) :
             info[i].offset = IF i = 1 THEN 0 ELSE info[i - 1].offset + info[i - 1].len
       /\ Len(g.node_data) =
             IF info = << >> THEN 0 ELSE info[Len(info)].offset + info[Len(info)].len

\* A locked graph of three nodes: the first list with two edges in
\* descending target order, the second empty, the third with one edge.
C15_Witness ==
    /\ op.name = "lock_graph"
    /\ Len(source) = 3
    /\ Len(source[1]) = 2 /\ source[1][1].node > source[1][2].node
    /\ source[2] = << >>
    /\ Len(source[3]) = 1
    /\ acc.graph.node_info[3].offset = 2

MapNodes == 3
MapValues == 2

\* Variant: the entry is taken out of the vector and the later ones move down.
NodeMapRemoveShifts(v, n) ==
    IF ~NodeMapHas(v, n) THEN [v |-> v, ret |-> None]
    ELSE [v |-> SubSeq(v, 1, n) \o SubSeq(v, n + 2, Len(v)), ret |-> v[n + 1]]

\* NodeMap::remove: Option::take of the entry, None for an absent one.
NodeMapRemove(v, n) ==
    IF ~NodeMapHas(v, n) THEN [v |-> v, ret |-> None]
    ELSE [v |-> [v EXCEPT ![n + 1] = None], ret |-> v[n + 1]]

\* The partial map m with n bound to t, and with n unbound.
Bound(m, n, t) == [x \in DOMAIN m \cup {n} |-> IF x = n THEN t ELSE m[x]]
Unbound(m, n) == [x \in DOMAIN m \ {n} |-> m[x]]

\* NodeMap::new
InitMap ==
    /\ map = NodeMapNew
    /\ model = << >>
    /\ op = NoOp
    /\ nodes = << >>
    /\ ty = "Directed"
    /\ source = << >>
    /\ set = << >>
    /\ pc = "idle"
    /\ SearchIdle
    /\ locals = NoLocals

MapInsert(n, t) ==
    /\ map' = NodeMapInsert(map, n, t)
    /\ model' = Bound(model, n, t)
    /\ op' = [name |-> "insert", args |-> <<n, t>>, ret |-> None, before |-> map]
    /\ UNCHANGED <<nodes, ty, source, set, pc>>
    /\ UNCHANGED search
    /\ UNCHANGED locals

MapRemove(n) ==
    /\ LET r == NodeMapRemove(map, n)
       IN /\ map' = r.v
          /\ op' = [name |-> "remove", args |-> <<n>>, ret |-> r.ret, before |-> map]
    /\ model' = Unbound(model, n)
    /\ UNCHANGED <<nodes, ty, source, set, pc>>
    /\ UNCHANGED search
    /\ UNCHANGED locals

NextMap ==
    \/ \E n \in 0..MapNodes, t \in 1..MapValues : MapInsert(n, t)
    \/ \E n \in 0..MapNodes : MapRemove(n)

SpecMap == InitMap /\ [][NextMap]_vars

\* C18: after any inserts and removes, has and get agree with the partial
\* map of the most recent inserts not followed by a remove, for every node up
\* to and beyond the backing length; remove returns what was present; and the
\* entries of the nodes the last call was not about are as before it.
C18_MapRefinesPartialMap ==
    /\ \A n \in 0..(MapNodes + 1) :
          /\ NodeMapHas(map, n) <=> n \in DOMAIN model
          /\ NodeMapGet(map, n) = IF n \in DOMAIN model THEN Some(model[n]) ELSE None
    /\ op.name = "remove" => op.ret = NodeMapGet(op.before, op.args[1])
    /\ op.name \in {"insert", "remove"} =>
          \A m \in (0..(MapNodes + 1)) \ {op.args[1]} :
              NodeMapGet(map, m) = NodeMapGet(op.before, m)

\* A present entry was removed below another present entry, and a node
\* beyond the backing length is asked about.
C18_Witness ==
    /\ op.name = "remove"
    /\ IsSome(op.ret)
    /\ \E m \in 0..MapNodes : m > op.args[1] /\ NodeMapHas(map, m)
    /\ Len(map) <= MapNodes

\* ------------------------------------------------------------------ NodeSet
SetNodes == 3
SliceLen == 2

\* NodeSet::has
NodeSetHas(v, n) == IF n >= Len(v) THEN FALSE ELSE v[n + 1]

\* NodeSet::add: grow with false up to index n, set it, return whether it
\* was unset.
NodeSetAdd(v, n) ==
    LET grown == [i \in 1..Max(Len(v), n + 1) |-> IF i <= Len(v) THEN v[i] ELSE FALSE]
    IN [v |-> [grown EXCEPT ![n + 1] = TRUE], ret |-> ~grown[n + 1]]

\* The loop of add_many over the rest ns of the slice.
RECURSIVE add_many_loop(_, _, _)
add_many_loop(v, ns, count) ==
    IF ns = << >> THEN [v |-> v, ret |-> count]
    ELSE LET r == NodeSetAdd(v, Head(ns))
         IN add_many_loop(r.v, Tail(ns), IF r.ret THEN count + 1 ELSE count)

\* Variant: every node of the slice is counted.
NodeSetAddManyCountsAll(v, ns) == [v |-> add_many_loop(v, ns, 0).v, ret |-> Len(ns)]

\* NodeSet::add_many
NodeSetAddMany(v, ns) == add_many_loop(v, ns, 0)

\* NodeSet::remove
NodeSetRemove(v, n) ==
    IF n >= Len(v) THEN [v |-> v, ret |-> FALSE]
    ELSE [v |-> [v EXCEPT ![n + 1] = FALSE], ret |-> v[n + 1]]

\* The loop of remove_many over the rest ns of the slice.
RECURSIVE remove_many_loop(_, _, _)
remove_many_loop(v, ns, count) ==
    IF ns = << >> THEN [v |-> v, ret |-> count]
    ELSE LET r == NodeSetRemove(v, Head(ns))
         IN remove_many_loop(r.v, Tail(ns), IF r.ret THEN count + 1 ELSE count)

\* NodeSet::remove_many
NodeSetRemoveMany(v, ns) == remove_many_loop(v, ns, 0)

\* NodeSet::is_empty
NodeSetIsEmpty(v) == IF v = << >> THEN TRUE ELSE \A i \in 1..Len(v) : ~v[i]

\* NodeSet::size
NodeSetSize(v) == Cardinality({i \in 1..Len(v) : v[i]})

\* Variant: the positions of the set elements counted from one.
RECURSIVE NodeSetToVecFromOne(_)
NodeSetToVecFromOne(v) ==
    IF v = << >> THEN << >>
    ELSE NodeSetToVecFromOne(SubSeq(v, 1, Len(v) - 1))
            \o (IF v[Len(v)] THEN <<Len(v)>> ELSE << >>)

\* NodeSet::to_vec: enumerate the vector from index 0 and keep the indices
\* of the true elements.
RECURSIVE NodeSetToVec(_)
NodeSetToVec(v) ==
    IF v = << >> THEN << >>
    ELSE NodeSetToVec(SubSeq(v, 1, Len(v) - 1))
            \o (IF v[Len(v)] THEN <<Len(v) - 1>> ELSE << >>)

\* Variant: the vector is emptied (Vec::clear).
NodeSetClearTruncates(v) == << >>

\* NodeSet::clear: every element set to false.
NodeSetClear(v) == [i \in 1..Len(v) |-> FALSE]

\* Slices of at most k node ids.
RECURSIVE Slices(_)
Slices(k) ==
    IF k = 0 THEN {<< >>}
    ELSE Slices(k - 1) \cup
         {Append(sl, n) : sl \in {x \in Slices(k - 1) : Len(x) = k - 1}, n \in 0..SetNodes}

\* The nodes of a slice.
SliceNodes(sl) == {sl[i] : i \in 1..Len(sl)}

\* NodeSet::new
InitSet ==
    /\ set = << >>
    /\ model = {}
    /\ op = NoOp
    /\ nodes = << >>
    /\ ty = "Directed"
    /\ source = << >>
    /\ map = << >>
    /\ pc = "idle"
    /\ SearchIdle
    /\ locals = NoLocals

SetDone(name, args, r, m) ==
    /\ pc = "idle"
    /\ set' = r.v
    /\ model' = m
    /\ op' = [name |-> name, args |-> args, ret |-> r.ret, before |-> set]
    /\ UNCHANGED <<nodes, ty, source, map, pc>>
    /\ UNCHANGED search
    /\ UNCHANGED locals

SetAdd(n) == SetDone("add", <<n>>, NodeSetAdd(set, n), model \cup {n})

SetRemove(n) == SetDone("remove", <<n>>, NodeSetRemove(set, n), model \ {n})

SetAddMany(sl) ==
    SetDone("add_many", <<sl>>, NodeSetAddMany(set, sl), model \cup SliceNodes(sl))

SetRemoveMany(sl) ==
    SetDone("remove_many", <<sl>>, NodeSetRemoveMany(set, sl), model \ SliceNodes(sl))

SetClear == SetDone("clear", << >>, [v |-> NodeSetClear(set), ret |-> None], {})

\* to_vec(self) consumes the set: nothing can be called on it afterwards.
SetToVec ==
    /\ pc = "idle"
    /\ pc' = "done"
    /\ op' = [name |-> "to_vec", args |-> << >>, ret |-> NodeSetToVec(set), before |-> set]
    /\ UNCHANGED <<set, model, nodes, ty, source, map>>
    /\ UNCHANGED search
    /\ UNCHANGED locals

NextSet ==
    \/ \E n \in 0..SetNodes : SetAdd(n)
    \/ \E n \in 0..SetNodes : SetRemove(n)
    \/ \E sl \in Slices(SliceLen) : SetAddMany(sl)
    \/ \E sl \in Slices(SliceLen) : SetRemoveMany(sl)
    \/ SetClear
    \/ SetToVec

SpecSet == InitSet /\ [][NextSet]_vars

\* C19: after clear, has(n) is false for every n and is_empty is true, the
\* backing vector is as long as before; and whatever is added afterwards,
\* has answers as for a new set given the same additions and removals.
C19_ClearKeepsLength ==
    /\ op.name = "clear" =>
          /\ \A n \in 0..(SetNodes + 1) : ~NodeSetHas(set, n)
          /\ NodeSetIsEmpty(set)
          /\ Len(set) = Len(op.before)
    /\ \A n \in 0..(SetNodes + 1) : NodeSetHas(set, n) <=> n \in model
    /\ NodeSetIsEmpty(set) <=> model = {}

\* A set with members and a backing vector of several elements was cleared.
C19_Witness ==
    /\ op.name = "clear"
    /\ Len(set) > 1
    /\ NodeSetSize(op.before) > 1

\* C20: add returns true exactly when the node was absent, remove exactly
\* when it was present; add_many returns the number of nodes that became
\* present and remove_many the number that stopped being present.
C20_SetReturnValues ==
    /\ op.name = "add" => (op.ret <=> ~NodeSetHas(op.before, op.args[1]))
    /\ op.name = "remove" => (op.ret <=> NodeSetHas(op.before, op.args[1]))
    /\ op.name = "add_many" =>
          /\ op.ret = NodeSetSize(set) - NodeSetSize(op.before)
          /\ op.ret = Cardinality({n \in SliceNodes(op.args[1]) : ~NodeSetHas(op.before, n)})
    /\ op.name = "remove_many" =>
          /\ op.ret = NodeSetSize(op.before) - NodeSetSize(set)
          /\ op.ret = Cardinality({n \in SliceNodes(op.args[1]) : NodeSetHas(op.before, n)})

\* add_many was given a slice naming twice a node beyond the backing length.
C20_Witness ==
    /\ op.name = "add_many"
    /\ Len(op.args[1]) = 2
    /\ op.args[1][1] = op.args[1][2]
    /\ op.args[1][1] >= Len(op.before)
    /\ Len(op.before) > 0
    /\ op.ret = 1

\* C21: to_vec returns the nodes in the set, each once, in strictly ascending
\* order, however they were added and removed, and as many as size() counts.
C21_ToVecAscending ==
    op.name = "to_vec" =>
        /\ \A i \in 1..(Len(op.ret) - 1) : op.ret[i] < op.ret[i + 1]
        /\ {op.ret[i] : i \in 1..Len(op.ret)} = model
        /\ \A n \in 0..(SetNodes + 1) :
              NodeSetHas(op.before, n) <=> \E i \in 1..Len(op.ret) : op.ret[i] = n
        /\ Len(op.ret) = NodeSetSize(op.before)

\* to_vec of a set holding nodes 0 and 2, node 1 absent, vector longer than 3.
C21_Witness ==
    /\ op.name = "to_vec"
    /\ op.ret = <<0, 2>>
    /\ Len(op.before) = 4

\* ------------------------------------------------------------------ topsort
\* Graphs sorted: at most MaxNodes nodes, nodes and edges together TopSize.
TopSize == 7

\* The node ids 0, 1, ..., n - 1 in order: g.nodes().
RECURSIVE NodesUpTo(_)
NodesUpTo(n) == IF n = 0 THEN << >> ELSE Append(NodesUpTo(n - 1), n - 1)

\* The targets of a sequence of edges, in order.
Targets(es) == [i \in 1..Len(es) |-> es[i].node]

\* compute_roots: a NodeSet of every node, the target of every edge removed,
\* then to_vec.
compute_roots(ns) ==
    LET all == NodeSetAddMany(<< >>, NodesUpTo(Len(ns))).v
    IN NodeSetToVec(NodeSetRemoveMany(all, Targets(Flatten(ns))).v)

\* The two loops of inverted: for the edges from index i of node n on, and
\* for the nodes after n, out.add_edge(e.node, n, 1.0).
RECURSIVE inverted_loop(_, _, _, _, _)
inverted_loop(out, ns, t, n, i) ==
    IF n >= Len(ns) THEN [nodes |-> out, panic |-> FALSE]
    ELSE IF i > Len(ns[n + 1]) THEN inverted_loop(out, ns, t, n + 1, 1)
    ELSE LET r == add_edge(out, t, ns[n + 1][i].node, n, 1)
         IN IF r.panic THEN r ELSE inverted_loop(r.nodes, ns, t, n, i + 1)

\* AdjacencyList::inverted
inverted(ns, t) == inverted_loop([i \in 1..Len(ns) |-> << >>], ns, t, 0, 1)

\* Variant: the oldest root is taken (a queue, not a stack).
roots_pop_front(roots) == [n |-> roots[1], rest |-> SubSeq(roots, 2, Len(roots))]

\* roots.pop() on a non-empty vector: the last element.
roots_pop(roots) == [n |-> roots[Len(roots)], rest |-> SubSeq(roots, 1, Len(roots) - 1)]

\* The for loop of topsort over the edges es (from index i) that
\* outgoing.clear_edges(n) returned.
RECURSIVE topsort_edges(_, _, _, _)
topsort_edges(l, n, es, i) ==
    IF i > Len(es) THEN l
    ELSE LET r == remove_edge(l.incoming, es[i].node, n)
         IN IF r.panic \/ r.ret = None THEN [l EXCEPT !.panic = TRUE]
            ELSE LET l1 == [l EXCEPT !.incoming = r.nodes]
                     l2 == IF Len(edges(l1.incoming, es[i].node).ret) = 0
                           THEN [l1 EXCEPT !.roots = Append(@, es[i].node)]
                           ELSE l1
                 IN topsort_edges(l2, n, es, i + 1)

\* One iteration of `while let Some(n) = roots.pop()` with roots not empty.
topsort_iter(l) ==
    LET p == roots_pop(l.roots)
        c == clear_edges(l.outgoing, p.n)
        l1 == [l EXCEPT !.roots = p.rest, !.out = Append(@, p.n), !.outgoing = c.nodes]
    IN IF c.panic THEN [l1 EXCEPT !.panic = TRUE]
       ELSE topsort_edges(l1, p.n, c.ret, 1)

\* topsort up to the loop.
topsort_begin(ns, t) ==
    LET inv == inverted(ns, t)
    IN [fn |-> "topsort", out |-> << >>, roots |-> compute_roots(ns),
        outgoing |-> ns, incoming |-> inv.nodes, panic |-> inv.panic]

\* topsort run to its end: the locals when the loop is left.
RECURSIVE topsort_loop(_)
topsort_loop(l) ==
    IF l.panic \/ l.roots = << >> THEN l ELSE topsort_loop(topsort_iter(l))

topsort(ns, t) == topsort_loop(topsort_begin(ns, t))

\* A call of topsort on a directed graph, up to the loop.
InitTop ==
    /\ nodes \in GraphsOfSize(TopSize)
    /\ ty = "Directed"
    /\ locals = topsort_begin(nodes, ty)
    /\ pc = IF locals.panic THEN "panic" ELSE "loop"
    /\ op = NoOp
    /\ source = nodes
    /\ map = << >>
    /\ set = << >>
    /\ model = {}
    /\ SearchIdle

\* One iteration of the while loop, or its exit.
TopStep ==
    /\ pc = "loop"
    /\ locals.fn = "topsort"
    /\ IF locals.roots = << >>
       THEN pc' = "done" /\ UNCHANGED locals
       ELSE /\ locals' = topsort_iter(locals)
            /\ pc' = IF locals'.panic THEN "panic" ELSE "loop"
    /\ UNCHANGED <<nodes, ty, op, source, map, set, model>>
    /\ UNCHANGED search

SpecTop == InitTop /\ [][TopStep]_vars

\* No edge leads to a node from which its origin can be reached.
Acyclic(ns) == \A t \in EdgesOf(ns) : ~Reachable(ns, t[2], t[1])

\* The position of node n in the sequence out, 0 when it is not in it.
Position(out, n) ==
    IF \E i \in 1..Len(out) : out[i] = n
    THEN CHOOSE i \in 1..Len(out) : out[i] = n
    ELSE 0

\* The nodes no edge leads to.
Roots(ns) == {n \in 0..(Len(ns) - 1) : \A t \in EdgesOf(ns) : t[2] # n}

\* The children of out[i], in list order, all of whose predecessors are among
\* out[1..i]: the nodes that become roots when out[i] is emitted.
Freed(ns, out, i) ==
    SelectSeq(Targets(ns[out[i] + 1]),
              LAMBDA c : \A t \in EdgesOf(ns) :
                            t[2] = c => \E j \in 1..i : out[j] = t[1])

\* C22: on a directed acyclic graph topsort returns every node exactly once,
\* u before v for every edge u -> v; the highest initial root comes first,
\* and when emitting a node frees children, the child freed last is next.
C22_TopsortOrders ==
    (pc = "done" /\ locals.fn = "topsort" /\ Acyclic(nodes)) =>
        LET out == locals.out
        IN /\ Len(out) = Len(nodes)
           /\ \A n \in 0..(Len(nodes) - 1) : Cardinality({i \in 1..Len(out) : out[i] = n}) = 1
           /\ \A t \in EdgesOf(nodes) : Position(out, t[1]) < Position(out, t[2])
           /\ out # << >> => \A r \in Roots(nodes) : r <= out[1]
           /\ \A i \in 1..(Len(out) - 1) :
                 LET f == Freed(nodes, out, i)
                 IN f # << >> => out[i + 1] = f[Len(f)]

\* A sorted graph of four nodes with several roots and a node with two
\* predecessors.
C22_Witness ==
    /\ pc = "done"
    /\ locals.fn = "topsort"
    /\ Acyclic(nodes)
    /\ Len(nodes) = 4
    /\ Cardinality(Roots(nodes)) >= 2
    /\ \E t \in EdgesOf(nodes), u \in EdgesOf(nodes) : t[2] = u[2] /\ t[1] # u[1]

\* ------------------------------------------------------------------ bfs and dfs
\* Graphs traversed: at most MaxNodes nodes, nodes and edges together
\* TraverseSize.  The weights play no part and are all 0.
TraverseSize == 6

\* Variant: the newest element is taken.
pop_front_takes_back(q) == [n |-> q[Len(q)], rest |-> SubSeq(q, 1, Len(q) - 1)]

\* VecDeque::pop_front on a non-empty queue.
pop_front(q) == [n |-> q[1], rest |-> SubSeq(q, 2, Len(q))]

\* VecDeque::pop_back on a non-empty queue.
pop_back(q) == [n |-> q[Len(q)], rest |-> SubSeq(q, 1, Len(q) - 1)]

\* The body of the while loop of bfs / dfs_at_impl for the popped node p.n:
\* skip a visited node, else mark it, visit it and queue its children in
\* list order.
visit_popped(l, ns, p) ==
    IF NodeSetHas(l.visited, p.n) THEN [l EXCEPT !.queue = p.rest]
    ELSE [l EXCEPT !.visited = NodeSetAdd(@, p.n).v,
                   !.order = Append(@, p.n),
                   !.queue = p.rest \o Targets(edges(ns, p.n).ret)]

\* The step of `for n in g.nodes()` of bfs / dfs when the queue is empty:
\* leave the loop after the last node, pass over a visited node, else queue
\* the node.
next_root(l, ns) ==
    IF l.n >= Len(ns) THEN [l EXCEPT !.done = TRUE]
    ELSE IF NodeSetHas(l.visited, l.n) THEN [l EXCEPT !.n = @ + 1]
    ELSE [l EXCEPT !.n = @ + 1, !.queue = <<l.n>>]

\* bfs: one step of the for loop or one iteration of its while loop.
bfs_iter(l, ns) ==
    IF l.queue = << >> THEN next_root(l, ns) ELSE visit_popped(l, ns, pop_front(l.queue))

\* dfs: one step of the for loop or one iteration of the while loop of
\* dfs_at_impl.
dfs_iter(l, ns) ==
    IF l.queue = << >> THEN next_root(l, ns) ELSE visit_popped(l, ns, pop_back(l.queue))

\* bfs / dfs up to the for loop; an empty graph returns at once.
traverse_begin(fn, ns) ==
    [fn |-> fn, n |-> 0, queue |-> << >>, visited |-> << >>, order |-> << >>,
     done |-> ns = << >>]

RECURSIVE traverse_loop(_, _)
traverse_loop(l, ns) ==
    IF l.done THEN l
    ELSE traverse_loop(IF l.fn = "bfs" THEN bfs_iter(l, ns) ELSE dfs_iter(l, ns), ns)

\* The nodes in the order bfs / dfs calls visit on them.
bfs(ns) == traverse_loop(traverse_begin("bfs", ns), ns).order
dfs(ns) == traverse_loop(traverse_begin("dfs", ns), ns).order

\* Graphs in which each list is in insertion order (built by add_node and
\* add_edge alone).
Inserted == {g \in GraphsOfSize(TraverseSize) : \A e \in EdgesOf(g) : e[3] = 0}

\* A graph as inserted, or with one edge removed since, and a call of bfs or
\* dfs on it.
InitTraverse ==
    /\ source \in Inserted
    /\ nodes \in {source} \cup
          {remove_edge(source, e[1], e[2]).nodes : e \in EdgesOf(source)}
    /\ ty = "Directed"
    /\ \E fn \in {"bfs", "dfs"} : locals = traverse_begin(fn, nodes)
    /\ pc = IF locals.done THEN "done" ELSE "loop"
    /\ op = NoOp
    /\ map = << >>
    /\ set = << >>
    /\ model = {}
    /\ SearchIdle

Traversed(l) ==
    /\ locals' = l
    /\ pc' = IF l.done THEN "done" ELSE "loop"
    /\ UNCHANGED <<nodes, ty, op, source, map, set, model>>
    /\ UNCHANGED search

BfsStep == pc = "loop" /\ locals.fn = "bfs" /\ Traversed(bfs_iter(locals, nodes))

DfsStep == pc = "loop" /\ locals.fn = "dfs" /\ Traversed(dfs_iter(locals, nodes))

NextTraverse == BfsStep \/ DfsStep

SpecTraverse == InitTraverse /\ [][NextTraverse]_vars

\* The sequence a with the elements of b it does not hold added in order.
RECURSIVE AppendNew(_, _)
AppendNew(a, b) ==
    IF b = << >> THEN a
    ELSE AppendNew(IF \E i \in 1..Len(a) : a[i] = Head(b) THEN a ELSE Append(a, Head(b)),
                   Tail(b))

\* Breadth-first order by the book: nodes in order of discovery, the
\* children of disc[i], disc[i + 1], ... discovered in list order.
RECURSIVE RefBfsFrom(_, _, _)
RefBfsFrom(ns, disc, i) ==
    IF i > Len(disc) THEN disc
    ELSE RefBfsFrom(ns, AppendNew(disc, Targets(ns[disc[i] + 1])), i + 1)

\* ... from the roots r, r + 1, ... in ascending order.
RECURSIVE RefBfs(_, _, _)
RefBfs(ns, disc, r) ==
    IF r >= Len(ns) THEN disc
    ELSE RefBfs(ns, RefBfsFrom(ns, AppendNew(disc, <<r>>), Len(disc) + 1), r + 1)

\* Depth-first preorder by the book: a node, then the subtrees of its
\* unvisited children from the last of its list to the first.
RECURSIVE RefDfsVisit(_, _, _)
RECURSIVE RefDfsChildren(_, _, _, _)
RefDfsVisit(ns, n, order) ==
    IF \E i \in 1..Len(order) : order[i] = n THEN order
    ELSE RefDfsChildren(ns, n, Len(ns[n + 1]), Append(order, n))

RefDfsChildren(ns, n, i, order) ==
    IF i = 0 THEN order
    ELSE RefDfsChildren(ns, n, i - 1, RefDfsVisit(ns, ns[n + 1][i].node, order))

RECURSIVE RefDfs(_, _, _)
RefDfs(ns, order, r) ==
    IF r >= Len(ns) THEN order ELSE RefDfs(ns, RefDfsVisit(ns, r, order), r + 1)

\* The graph ns with each list in the order its edges were inserted in.
InsertionOrdered(ns, src) ==
    [n \in 1..Len(ns) |->
        SelectSeq(src[n], LAMBDA e : \E i \in 1..Len(ns[n]) : ns[n][i] = e)]

\* Every node of ns is in order exactly once.
EachOnce(ns, order) ==
    /\ Len(order) = Len(ns)
    /\ \A n \in 0..(Len(ns) - 1) : \E i \in 1..Len(order) : order[i] = n

\* C23 as stated: bfs and dfs visit every node exactly once, roots
\* ascending; bfs in first-in-first-out order of discovery with children in
\* edge insertion order, dfs the most recently inserted unvisited child first.
C23_TraversalInsertionOrder ==
    (pc = "done" /\ locals.fn \in {"bfs", "dfs"}) =>
        /\ EachOnce(nodes, locals.order)
        /\ locals.fn = "bfs" =>
              locals.order = RefBfs(InsertionOrdered(nodes, source), << >>, 0)
        /\ locals.fn = "dfs" =>
              locals.order = RefDfs(InsertionOrdered(nodes, source), << >>, 0)

\* C23 as amended: ... with children in the order of the node's edge list,
\* dfs the last unvisited child of the list first.
C23_TraversalListOrder ==
    (pc = "done" /\ locals.fn \in {"bfs", "dfs"}) =>
        /\ EachOnce(nodes, locals.order)
        /\ locals.fn = "bfs" => locals.order = RefBfs(nodes, << >>, 0)
        /\ locals.fn = "dfs" => locals.order = RefDfs(nodes, << >>, 0)

\* A finished traversal of a graph of three nodes or more in which a
\* removal has put a list out of insertion order.
C23_Witness ==
    /\ pc = "done"
    /\ locals.fn \in {"bfs", "dfs"}
    /\ Len(locals.order) >= 3
    /\ nodes # InsertionOrdered(nodes, source)

\* ------------------------------------------------------------------ the push decision
\* The next iteration pops a node other than end and walks its edges.
ExpandsNext ==
    /\ pc = "loop"
    /\ acc.queue # << >>
    /\ ~HeapPop(acc.queue).panic
    /\ HeapPop(acc.queue).item.node # end
    /\ ~ImmEdgesPanics(acc.graph, HeapPop(acc.queue).item.node)

\* The node popped next and its edges.
NextCur == HeapPop(acc.queue).item.node
NextEdges == ImmEdges(acc.graph, NextCur)

\* The scratch buffers of the next iteration just before its i-th edge, the
\* heuristic being hf.
BeforeEdge(i, hf) ==
    expand([node_cost |-> acc.node_cost, parents |-> acc.parents,
            queue |-> HeapPop(acc.queue).data, panic |-> FALSE, evald |-> {}],
           NextCur, SubSeq(NextEdges, 1, i - 1), 1, hf)

\* ... and just after it.
AfterEdge(i, hf) == relax(BeforeEdge(i, hf), NextCur, NextEdges[i], hf)

\* tentative for the i-th edge.
Tentative(i, hf) ==
    FAdd(Unwrap(NodeMapGet(BeforeEdge(i, hf).node_cost, NextCur)), NextEdges[i].weight)

\* The child of the i-th edge has no entry in the queue before the edge.
ChildNotQueued(i, hf) ==
    \A x \in QueueEntries(BeforeEdge(i, hf).queue) : x.node # NextEdges[i].node

\* The i-th edge gives its child a first or a lower cost.
EdgeImproved(i, hf) ==
    LET nc == BeforeEdge(i, hf).node_cost
        child == NextEdges[i].node
    IN \/ child + 1 > Len(nc)
       \/ nc[child + 1] = None
       \/ Tentative(i, hf) < Unwrap(nc[child + 1])

\* The i-th edge pushed an entry for its child.
ChildPushed(i, hf) ==
    Len(AfterEdge(i, hf).queue) = Len(BeforeEdge(i, hf).queue) + 1

\* The heuristics the next iteration may meet.
NextHeuristics == {Extend(heuristic, hx, Unasked) : hx \in [Unasked -> HValues]}

\* C24 as stated: for each edge of the popped node the child is pushed, with
\* priority tentative + heuristic(child), exactly when it is not in the
\* queue, whether or not the edge improved its cost.
C24_PushIffNotQueued ==
    ExpandsNext =>
        \A hf \in NextHeuristics : \A i \in 1..Len(NextEdges) :
            ~BeforeEdge(i, hf).panic =>
                (ChildPushed(i, hf) <=> ChildNotQueued(i, hf))

\* C24 as amended: the child is pushed, with priority tentative +
\* heuristic(child), exactly when the edge improved its cost and it is not in
\* the queue.
C24_PushIffImprovedAndNotQueued ==
    ExpandsNext =>
        \A hf \in NextHeuristics : \A i \in 1..Len(NextEdges) :
            ~BeforeEdge(i, hf).panic =>
                /\ ChildPushed(i, hf) <=> (EdgeImproved(i, hf) /\ ChildNotQueued(i, hf))
                /\ ChildPushed(i, hf) =>
                      edge(NextEdges[i].node, FAdd(Tentative(i, hf), hf[NextEdges[i].node]))
                          \in QueueEntries(AfterEdge(i, hf).queue)
                /\ ~ChildPushed(i, hf) =>
                      AfterEdge(i, hf).queue = BeforeEdge(i, hf).queue

\* The next iteration walks an edge that improves nothing, to a child that
\* is not in the queue, and an edge that pushes its child.
C24_Witness ==
    /\ ExpandsNext
    /\ \E hf \in NextHeuristics : \E i \in 1..Len(NextEdges), j \in 1..Len(NextEdges) :
          /\ ~BeforeEdge(i, hf).panic
          /\ ~BeforeEdge(j, hf).panic
          /\ ~EdgeImproved(i, hf) /\ ChildNotQueued(i, hf)
          /\ ChildPushed(j, hf)

\* ------------------------------------------------------------------ pop order
\* Nodes that have been popped: they have a cost and no entry in the queue.
PoppedNodes ==
    {n \in 0..(Len(acc.node_cost) - 1) :
        NodeMapHas(acc.node_cost, n) /\ ~InQueue(acc.queue, n)}

\* The step pops an entry after an earlier pop.
PopsAgain == pc = "loop" /\ popped # None /\ acc.queue # << >> /\ popped' # None

\* C25: with non-negative weights and a consistent heuristic the priorities
\* popped during one search are non-decreasing in pop order, and the cost of
\* a node is never lowered after the node has been popped.
C25_PopsNonDecreasing ==
    [][/\ PopsAgain => Unwrap(popped').entry.weight >= Unwrap(popped).entry.weight
       /\ pc = "loop" =>
             \A n \in PoppedNodes : acc'.node_cost[n + 1] = acc.node_cost[n + 1]]_vars

\* ------------------------------------------------------------------ the reset
\* The map holds no entry.
NoEntry(v) == \A i \in 1..Len(v) : v[i] = None

\* C26: clear_transients leaves the cost map and the parent map with no
\* entry and the queue empty, whatever an earlier search left behind; a
\* second call changes nothing more; and a_star makes the call first, also
\* when it returns early (empty graph or start = end).
C26_ClearTransients ==
    LET c == clear_transients(acc)
    IN /\ NoEntry(c.node_cost)
       /\ NoEntry(c.parents)
       /\ c.queue = << >>
       /\ c.graph = acc.graph
       /\ clear_transients(c) = c
       /\ pc \in {"idle", "done"} =>
             \A s \in NodeIds, e \in NodeIds :
                 EarlyReturn(acc.graph, s, e) => a_star_begin(acc, s, e).acc = c
       /\ (pc = "done" /\ EarlyReturn(acc.graph, start, end)) =>
             NoEntry(acc.node_cost) /\ NoEntry(acc.parents) /\ acc.queue = << >>

\* A search that found a path has left costs, parents and queued entries
\* behind, and the next call may return early.
C26_Witness ==
    /\ pc = "done"
    /\ result # None
    /\ acc.queue # << >>
    /\ ~NoEntry(acc.node_cost)
    /\ ~NoEntry(acc.parents)
    /\ \E s \in NodeIds, e \in NodeIds : EarlyReturn(acc.graph, s, e)

\* ------------------------------------------------------------------ the queue and the costs
\* No two entries of the queue q are for the same node.
OneEntryPerNode(q) == \A i \in 1..Len(q), j \in 1..Len(q) : q[i].node = q[j].node => i = j

\* Every node with an entry in q has a cost in node_cost_.
QueuedHaveCost(q, node_cost_) == \A x \in QueueEntries(q) : NodeMapHas(node_cost_, x.node)

\* C27: at every point of a search (between two iterations and between two
\* edges of one iteration) the queue holds at most one entry per node and
\* every queued node has a cost; the node popped has a cost, so node_cost[cur]
\* does not abort.
C27_OneEntryPerNodeWithCost ==
    pc = "loop" =>
        /\ OneEntryPerNode(acc.queue)
        /\ QueuedHaveCost(acc.queue, acc.node_cost)
        /\ ExpandsNext =>
              /\ NodeMapHas(acc.node_cost, NextCur)
              /\ \A hf \in NextHeuristics : \A i \in 1..(Len(NextEdges) + 1) :
                    LET c == BeforeEdge(i, hf)
                    IN ~c.panic =>
                          /\ OneEntryPerNode(c.queue)
                          /\ QueuedHaveCost(c.queue, c.node_cost)
                          /\ NodeMapHas(c.node_cost, NextCur)

\* The next iteration lowers the cost of a node that is in the queue, next
\* to another entry.
C27_Witness ==
    /\ ExpandsNext
    /\ Len(acc.queue) >= 2
    /\ \E hf \in NextHeuristics : \E i \in 1..Len(NextEdges) :
          /\ ~BeforeEdge(i, hf).panic
          /\ EdgeImproved(i, hf)
          /\ ~ChildNotQueued(i, hf)

\* ------------------------------------------------------------------ the parent entries
\* The search got past the early return.
Searching == pc # "idle" /\ ~EarlyReturn(acc.graph, start, end)

\* The last entry popped was for end.
EndPopped == popped # None /\ Unwrap(popped).entry.node = end

\* C28: with non-negative weights start has no parent entry and cost 0, the
\* walk along the parent entries from any node that has one reaches start
\* (no cycle), every other node with a cost has a parent entry; so the walk
\* from a popped end reaches start, and a_star returns absent only by the
\* early return or with the queue exhausted.
C28_ParentsLeadToStart ==
    /\ Searching =>
          /\ ~NodeMapHas(acc.parents, start)
          /\ NodeMapGet(acc.node_cost, start) = Some(0)
          /\ \A n \in 0..(Len(acc.node_cost) - 1) :
                (NodeMapHas(acc.node_cost, n) /\ n # start) => NodeMapHas(acc.parents, n)
          /\ \A n \in 0..(Len(acc.parents) - 1) :
                NodeMapHas(acc.parents, n) =>
                    LET w == walk_backwards(start, n, acc.parents)
                    IN /\ w.kind = "done"
                       /\ w.result # None
                       /\ Unwrap(w.result)[1].node = start
          /\ (EndPopped /\ pc # "panic") => (pc = "done" /\ result # None)
    /\ pc # "hang"
    /\ (pc = "done" /\ result = None) =>
          \/ EarlyReturn(acc.graph, start, end)
          \/ acc.queue = << >> /\ popped # None /\ ~EndPopped

\* A path of two edges or more was returned on a graph with an edge into
\* start and a cycle.
C28_Witness ==
    /\ pc = "done"
    /\ result # None
    /\ Len(Unwrap(result)) >= 3
    /\ \E t \in EdgesOf(nodes) : t[2] = start
    /\ ~Acyclic(nodes)

\* ------------------------------------------------------------------ the path sum
\* The cost recorded for node n.
CostOf(n) == Unwrap(NodeMapGet(acc.node_cost, n))

\* The answers the heuristic has given so far are those of a heuristic that
\* is consistent for end.
ConsistentSoFar ==
    /\ IsValid(nodes, end)
    /\ \E h \in [0..(Len(nodes) - 1) -> 0..MaxH] :
          /\ Consistent(nodes, h, end)
          /\ \A n \in DOMAIN heuristic : heuristic[n] = h[n]

\* C29: in every search each parent entry (p, w) of a node n has
\* cost(n) >= cost(p) + w, so the weights of a returned path sum to at most
\* the cost recorded for end; with a consistent heuristic they sum to
\* exactly that cost.
C29_PathSumWithinCost ==
    /\ Searching =>
          \A n \in 0..(Len(acc.parents) - 1) :
              NodeMapHas(acc.parents, n) =>
                  LET p == Unwrap(NodeMapGet(acc.parents, n))
                  IN /\ NodeMapHas(acc.node_cost, n)
                     /\ NodeMapHas(acc.node_cost, p.node)
                     /\ CostOf(n) >= CostOf(p.node) + p.weight
    /\ (pc = "done" /\ result # None) =>
          /\ PathWeight(Unwrap(result)) <= CostOf(end)
          /\ ConsistentSoFar => PathWeight(Unwrap(result)) = CostOf(end)

\* A path of two edges or more and of weight above 0 was returned, found
\* with a consistent heuristic that is not 0 everywhere.
C29_Witness ==
    /\ pc = "done"
    /\ result # None
    /\ Len(Unwrap(result)) >= 3
    /\ PathWeight(Unwrap(result)) > 0
    /\ ConsistentSoFar
    /\ \E n \in DOMAIN heuristic : heuristic[n] > 0

====
